---- MODULE Spec2Model ----
(***************************************************************************)
(* A model of starknet-event-query: the fixture stem codec (FilterSeed),   *)
(* the sidecar filter descriptor decoder, the paged retrieval and          *)
(* comparison loop of check_fixture, and the fixture curators              *)
(* (examples/filter_address.rs, examples/filter_keys.rs).                  *)
(*                                                                         *)
(* Text is modelled as a sequence of one-character strings, so that        *)
(* find, slicing, parsing and formatting are computed as the code does.    *)
(***************************************************************************)
EXTENDS Integers, Sequences, FiniteSets, TLC

VARIABLES
    pc,            \* position of the running program
    stem,          \* the fixture's file stem (text)
    origin,        \* stem codec: the triple that was encoded, or NoSeed
    seed,          \* result of FilterSeed::from_stem
    sidecar,       \* content of the filter descriptor file beside the fixture
    filter,        \* result of resolving the filter (address, keys)
    fixture,       \* lines of the fixture file
    token,         \* check_fixture: continuation token of the next request
    destination,   \* check_fixture: lines written to the temporary file
    requests,      \* check_fixture: getEvents calls issued so far
    pages,         \* check_fixture: pages the transport has returned so far
    index,         \* check_fixture: position of the comparison loop
    cli,           \* curators: command line options
    written,       \* curators: files written, in order
    result         \* outcome of the program

vars == <<pc, stem, origin, seed, sidecar, filter, fixture, token, destination,
          requests, pages, index, cli, written, result>>

-----------------------------------------------------------------------------
(* Bounds of the model *)

\* u64::MAX, scaled down so that overflow is within reach of short stems
U64Max == 127

\* longest stem of the exhaustive stem set
MaxStemLen == 5

\* longest filter name of the seeds that are encoded
MaxNameLen == 2

\* most positions of a descriptor's keys array, most elements of one position
MaxKeyPositions == 2
MaxAlternatives == 1

\* most events of one page, most pages of one retrieval, most fixture lines
MaxPageLen == 2
MaxPages == 2
MaxFixtureLen == 3

\* curators: most lines of a source fixture, largest repeat threshold, most
\* keys of one event
MaxAddressEvents == 5
MaxRepeat == 2
MaxKeyEvents == 3
MaxKeys == 2

-----------------------------------------------------------------------------
(* Text *)

None == <<>>
Some(x) == <<x>>

DigitChars == <<"0", "1", "2", "3", "4", "5", "6", "7", "8", "9">>

IsDigit(c) == \E d \in 1..10 : DigitChars[d] = c

DigitVal(c) == (CHOOSE d \in 1..10 : DigitChars[d] = c) - 1

\* all texts over alphabet A of length at most n
Texts(A, n) == UNION {[1..k -> A] : k \in 0..n}

\* str::find(ch): index (from 1) of the first occurrence, 0 when there is none
Find(s, ch) ==
    IF \E i \in 1..Len(s) : s[i] = ch
    THEN CHOOSE i \in 1..Len(s) : s[i] = ch /\ \A j \in 1..(i - 1) : s[j] # ch
    ELSE 0

\* the slices s[..pos] and s[pos+1..] around the character at index p
Before(s, p) == SubSeq(s, 1, p - 1)
After(s, p) == SubSeq(s, p + 1, Len(s))

\* value of a digit string, checked against the integer width as it grows;
\* -1 stands for the overflow error
RECURSIVE DigitsValue(_, _)
DigitsValue(s, acc) ==
    IF s = <<>> THEN acc
    ELSE LET next == acc * 10 + DigitVal(Head(s))
         IN IF next > U64Max THEN -1 ELSE DigitsValue(Tail(s), next)

OkNum(n) == [ok |-> TRUE, n |-> n]
ErrNum == [ok |-> FALSE]

\* str::parse::<u64>: an optional single leading '+', then one or more decimal
\* digits; no '-' for an unsigned type; fails on overflow
ParseU64(s) ==
    LET digits == IF s # <<>> /\ Head(s) = "+" THEN Tail(s) ELSE s
    IN IF digits = <<>> \/ \E i \in 1..Len(digits) : ~IsDigit(digits[i])
       THEN ErrNum
       ELSE IF DigitsValue(digits, 0) = -1 THEN ErrNum
            ELSE OkNum(DigitsValue(digits, 0))

\* u64::to_string
RECURSIVE to_string(_)
to_string(n) ==
    IF n < 10 THEN <<DigitChars[n + 1]>>
    ELSE Append(to_string(n \div 10), DigitChars[(n % 10) + 1])

-----------------------------------------------------------------------------
(* FilterSeed: the stem codec *)

OkSeed(f, t, w) == [ok |-> TRUE, from_block |-> f, to_block |-> t, with_name |-> w]
ErrSeed(msg) == [ok |-> FALSE, err |-> msg]
NoSeed == [ok |-> FALSE, err |-> "none"]

OkTail(n, w) == [ok |-> TRUE, n |-> n, with_name |-> w]
ErrTail(msg) == [ok |-> FALSE, err |-> msg]

\* FilterSeed::parse_tail
parse_tail(tail) ==
    LET pos == Find(tail, "w")
    IN IF pos # 0
       THEN LET n == ParseU64(Before(tail, pos))
            IN IF ~n.ok THEN ErrTail("stem tail doesn't start with a number")
               ELSE OkTail(n.n, Some(After(tail, pos)))
       ELSE LET n == ParseU64(tail)
            IN IF ~n.ok THEN ErrTail("stem tail not a number")
               ELSE OkTail(n.n, None)

\* a decoder that adds with wrap-around instead of checked_add
from_stem_wrapping(s) ==
    LET pos == Find(s, "+")
    IN IF pos # 0
       THEN LET fb == ParseU64(Before(s, pos))
                tl == parse_tail(After(s, pos))
            IN IF ~fb.ok THEN ErrSeed("from block not a number")
               ELSE IF ~tl.ok THEN ErrSeed(tl.err)
               ELSE OkSeed(fb.n, (fb.n + tl.n) % (U64Max + 1), tl.with_name)
       ELSE LET tl == parse_tail(s)
            IN IF ~tl.ok THEN ErrSeed(tl.err)
               ELSE OkSeed(tl.n, tl.n, tl.with_name)

\* a decoder that forgets the block count of a stem that has one
from_stem_no_count(s) ==
    LET pos == Find(s, "+")
    IN IF pos # 0
       THEN LET fb == ParseU64(Before(s, pos))
                tl == parse_tail(After(s, pos))
            IN IF ~fb.ok THEN ErrSeed("from block not a number")
               ELSE IF ~tl.ok THEN ErrSeed(tl.err)
               ELSE OkSeed(fb.n, fb.n, tl.with_name)
       ELSE LET tl == parse_tail(s)
            IN IF ~tl.ok THEN ErrSeed(tl.err)
               ELSE OkSeed(tl.n, tl.n, tl.with_name)

\* FilterSeed::from_stem
from_stem(s) ==
    LET pos == Find(s, "+")
    IN IF pos # 0
       THEN LET fb == ParseU64(Before(s, pos))
                tl == parse_tail(After(s, pos))
            IN IF ~fb.ok THEN ErrSeed("from block not a number")
               ELSE IF ~tl.ok THEN ErrSeed(tl.err)
               ELSE IF fb.n + tl.n > U64Max
                    THEN ErrSeed("adding block count overflows")
                    ELSE OkSeed(fb.n, fb.n + tl.n, tl.with_name)
       ELSE LET tl == parse_tail(s)
            IN IF ~tl.ok THEN ErrSeed(tl.err)
               ELSE OkSeed(tl.n, tl.n, tl.with_name)

\* FilterSeed::format_filter_basename
format_filter_basename(sd) ==
    IF sd.with_name # None
    THEN LET head == IF sd.from_block = sd.to_block
                     THEN to_string(sd.from_block)
                     ELSE to_string(sd.from_block) \o <<"+">>
                          \o to_string(sd.to_block - sd.from_block)
         IN Some(head \o <<"f">> \o sd.with_name[1] \o <<".", "j", "s", "o", "n">>)
    ELSE None

\* StemCodec encoding (spec.md 4.1): from_block alone if to_block = from_block
\* and no name, else from_block "+" (to_block - from_block); then "w" name
Encode(sd) ==
    (IF sd.from_block = sd.to_block /\ sd.with_name = None
     THEN to_string(sd.from_block)
     ELSE to_string(sd.from_block) \o <<"+">> \o to_string(sd.to_block - sd.from_block))
    \o (IF sd.with_name # None THEN <<"w">> \o sd.with_name[1] ELSE <<>>)

-----------------------------------------------------------------------------
(* JSON values (serde_json::Value) and JSON objects (HashMap<String, Value>, *)
(* a function from field names to values)                                    *)

JString(s) == [t |-> "String", s |-> s]
JNumber(n) == [t |-> "Number", n |-> n]
JArray(a) == [t |-> "Array", a |-> a]

IsString(v) == v.t = "String"
IsArray(v) == v.t = "Array"

\* HashMap::get
Get(map, k) == IF k \in DOMAIN map THEN Some(map[k]) ELSE None

-----------------------------------------------------------------------------
(* Felt::from_hex: an optional 0x prefix, then hexadecimal digits *)

HexChars == <<"0", "1", "2", "3", "4", "5", "6", "7", "8", "9",
              "a", "b", "c", "d", "e", "f">>

IsHexDigit(c) == \E d \in 1..16 : HexChars[d] = c

HexDigitVal(c) == (CHOOSE d \in 1..16 : HexChars[d] = c) - 1

RECURSIVE HexValue(_)
HexValue(s) ==
    IF s = <<>> THEN 0
    ELSE HexValue(SubSeq(s, 1, Len(s) - 1)) * 16 + HexDigitVal(s[Len(s)])

\* str::strip_prefix("0x").unwrap_or(s)
StripPrefix0x(s) ==
    IF Len(s) >= 2 /\ s[1] = "0" /\ s[2] = "x" THEN SubSeq(s, 3, Len(s)) ELSE s

OkFelt(n) == [ok |-> TRUE, felt |-> n]
ErrFelt == [ok |-> FALSE]

from_hex(s) ==
    LET digits == StripPrefix0x(s)
    IN IF \E i \in 1..Len(digits) : ~IsHexDigit(digits[i]) THEN ErrFelt
       ELSE OkFelt(HexValue(digits))

-----------------------------------------------------------------------------
(* The fixture directory: the descriptor files beside the fixture.  A file  *)
(* is [name, content]; content is a JSON object, or text that is not one.   *)

JsonObject(map) == [json |-> TRUE, map |-> map]
NotJson == [json |-> FALSE]

\* fs::read_to_string(fixture_dir.join(basename))
ReadToString(dir, basename) ==
    IF \E f \in dir : f.name = basename
    THEN Some((CHOOSE f \in dir : f.name = basename).content)
    ELSE None

-----------------------------------------------------------------------------
(* FilterSeed::get_filter_address_and_keys *)

OkFilter(a, k) == [ok |-> TRUE, address |-> a, keys |-> k]
ErrFilter(msg) == [ok |-> FALSE, err |-> msg]

OkSeq(q) == [ok |-> TRUE, seq |-> q]
ErrSeq(msg) == [ok |-> FALSE, err |-> msg]

\* the inner loop: every element of one alternative set must be a string
RECURSIVE ConvertAlt(_)
ConvertAlt(arr) ==
    IF arr = <<>> THEN OkSeq(<<>>)
    ELSE IF ~IsString(Head(arr)) THEN ErrSeq("unexpected key type")
    ELSE LET k == from_hex(Head(arr).s)
         IN IF ~k.ok THEN ErrSeq("invalid hex")
            ELSE LET rest == ConvertAlt(Tail(arr))
                 IN IF ~rest.ok THEN rest ELSE OkSeq(<<k.felt>> \o rest.seq)

\* the outer loop: an entry of the keys array that is not an array is skipped
RECURSIVE ConvertKeys(_)
ConvertKeys(outer) ==
    IF outer = <<>> THEN OkSeq(<<>>)
    ELSE IF IsArray(Head(outer))
         THEN LET alt == ConvertAlt(Head(outer).a)
              IN IF ~alt.ok THEN alt
                 ELSE LET rest == ConvertKeys(Tail(outer))
                      IN IF ~rest.ok THEN rest ELSE OkSeq(<<alt.seq>> \o rest.seq)
         ELSE ConvertKeys(Tail(outer))

\* the raw (address, keys) pair read from the descriptor: a field of another
\* type than String / Array reads as absent
RawFilter(map) ==
    LET a == Get(map, "address")
        k == Get(map, "keys")
    IN [address |-> IF a # None /\ IsString(a[1]) THEN Some(a[1].s) ELSE None,
        keys |-> IF k # None /\ IsArray(k[1]) THEN Some(k[1].a) ELSE None]

\* the typed (address, keys) pair of a raw pair
TypedFilter(raw) ==
    LET address == IF raw.address # None THEN from_hex(raw.address[1]) ELSE OkFelt(0)
        keys == IF raw.keys # None THEN ConvertKeys(raw.keys[1]) ELSE OkSeq(<<>>)
    IN IF ~address.ok THEN ErrFilter("invalid address")
       ELSE IF ~keys.ok THEN ErrFilter(keys.err)
       ELSE OkFilter(IF raw.address # None THEN Some(address.felt) ELSE None,
                     IF raw.keys # None THEN Some(keys.seq) ELSE None)

get_filter_address_and_keys(sd, dir) ==
    LET basename == format_filter_basename(sd)
    IN IF basename # None
       THEN LET contents == ReadToString(dir, basename[1])
            IN IF contents = None THEN ErrFilter("no such file")
               ELSE IF ~contents[1].json THEN ErrFilter("not a JSON object")
               ELSE TypedFilter(RawFilter(contents[1].map))
       ELSE TypedFilter([address |-> None, keys |-> None])

-----------------------------------------------------------------------------
(* Events as JSON text and as values.  A line of a fixture is the text of a *)
(* JSON object, its fields in the order they were written, or text that is  *)
(* not JSON.  An event has the fields from_address, keys and, on the wire   *)
(* only, block_hash; data, block_number and transaction_hash are carried    *)
(* like from_address and are left out.                                      *)

ObjectLine(pairs) == [json |-> TRUE, pairs |-> pairs]
GarbageLine == [json |-> FALSE]

OkEvent(map) == [ok |-> TRUE, event |-> map]
ErrEvent == [ok |-> FALSE]

\* the field names, in the order of serde_json's sorted map
FieldOrder == <<"block_hash", "from_address", "keys">>

\* serde_json::from_str into a map: a repeated field keeps its last value
FromPairs(pairs) ==
    [f \in {pairs[i][1] : i \in 1..Len(pairs)} |->
        pairs[CHOOSE i \in 1..Len(pairs) :
                /\ pairs[i][1] = f
                /\ \A j \in (i + 1)..Len(pairs) : pairs[j][1] # f][2]]

\* the text of a value (Display of serde_json::Value): fields in sorted order
RECURSIVE PairsOf(_, _)
PairsOf(map, fields) ==
    IF fields = <<>> THEN <<>>
    ELSE (IF Head(fields) \in DOMAIN map
          THEN << <<Head(fields), map[Head(fields)]>> >>
          ELSE <<>>) \o PairsOf(map, Tail(fields))

ToLine(map) == ObjectLine(PairsOf(map, FieldOrder))

\* util::parse_event
parse_event(line) ==
    IF ~line.json THEN ErrEvent
    ELSE OkEvent(FromPairs(line.pairs))

\* HashMap::remove
Remove(map, k) == [f \in DOMAIN map \ {k} |-> map[f]]

\* Value indexing event["field"]: Null when the field is missing
JNull == [t |-> "Null"]
Field(map, k) == IF k \in DOMAIN map THEN map[k] ELSE JNull

-----------------------------------------------------------------------------
(* check_fixture (main.rs): build the filter, retrieve page by page,        *)
(* compare with the fixture.  main.rs carries its own copy of FilterSeed,   *)
(* the same text as filter_seed.rs, and its own address decoding.           *)

ChunkSize == 1024
AddressHexWidth == 64
AddressBytes == 32

RECURSIVE Zeros(_)
Zeros(n) == IF n <= 0 THEN <<>> ELSE <<"0">> \o Zeros(n - 1)

\* format!("{:0>64}", tail)
PadLeft(s, width) == Zeros(width - Len(s)) \o s

\* strip_prefix, pad, hex::decode, try_into [u8; 32], Felt::from_bytes_be
DecodeAddress(s) ==
    LET addr == PadLeft(StripPrefix0x(s), AddressHexWidth)
    IN IF Len(addr) % 2 # 0 \/ \E i \in 1..Len(addr) : ~IsHexDigit(addr[i])
       THEN ErrFelt
       ELSE IF Len(addr) \div 2 # AddressBytes THEN ErrFelt
       ELSE OkFelt(HexValue(addr))

EventFilter(f, t, a, k) ==
    [from_block |-> f, to_block |-> t, address |-> a, keys |-> k]

OkBuild(flt) == [outcome |-> "ok", filter |-> flt]
ErrBuild == [outcome |-> "error"]
PanicBuild == [outcome |-> "panic"]

\* lines 127-144: the decoded address, if any, and the filter built with it
FilterWithAddress(sd, address) ==
    IF ~address.ok THEN ErrBuild
    ELSE OkBuild(EventFilter(sd.from_block, sd.to_block, Some(address.felt), None))

\* lines 117-126: the descriptor is parsed and its address field indexed
FilterFromContents(sd, contents) ==
    IF contents = None THEN ErrBuild
    ELSE IF ~contents[1].json THEN ErrBuild
    ELSE IF "address" \notin DOMAIN contents[1].map THEN PanicBuild
    ELSE IF IsString(contents[1].map.address)
         THEN FilterWithAddress(sd, DecodeAddress(contents[1].map.address.s))
         ELSE OkBuild(EventFilter(sd.from_block, sd.to_block, None, None))

\* lines 112-126: the descriptor is read when the seed has a filter name
FilterFromBasename(sd, basename, dir) ==
    IF basename = None
    THEN OkBuild(EventFilter(sd.from_block, sd.to_block, None, None))
    ELSE FilterFromContents(sd, ReadToString(dir, basename[1]))

\* lines 111-112
FilterFromSeed(sd, dir) ==
    IF ~sd.ok THEN ErrBuild
    ELSE FilterFromBasename(sd, format_filter_basename(sd), dir)

\* lines 105-144: the EventFilter of a fixture, or how building it ends
BuildEventFilter(s, dir) == FilterFromSeed(from_stem(s), dir)

\* lines 152-161 with the transport-only field left in place
WriteEventsKeepingHash(dest, events) ==
    dest \o [i \in 1..Len(events) |-> ToLine(events[i])]

\* lines 152-161: every event of the page, block_hash removed, one per line
WriteEvents(dest, events) ==
    dest \o [i \in 1..Len(events) |-> ToLine(Remove(events[i], "block_hash"))]

\* lines 163-166: the loop ends at the first page without a token
AfterPage(tok) == IF tok = None THEN "compare" ELSE "request"

-----------------------------------------------------------------------------
(* The curators (examples/filter_address.rs, examples/filter_keys.rs)       *)

\* the characters '+' .. '9' and 'a' .. 'z' in ASCII order
AsciiLow == <<"+", ",", "-", ".", "/", "0", "1", "2", "3", "4", "5", "6", "7", "8", "9">>
AsciiLetters == <<"a", "b", "c", "d", "e", "f", "g", "h", "i", "j", "k", "l", "m",
                  "n", "o", "p", "q", "r", "s", "t", "u", "v", "w", "x", "y", "z">>

Ascii(c) ==
    IF \E i \in 1..Len(AsciiLow) : AsciiLow[i] = c
    THEN 42 + (CHOOSE i \in 1..Len(AsciiLow) : AsciiLow[i] = c)
    ELSE 96 + (CHOOSE i \in 1..Len(AsciiLetters) : AsciiLetters[i] = c)

\* Ord for String: byte by byte, a proper prefix first
RECURSIVE LexLess(_, _)
LexLess(a, b) ==
    IF b = <<>> THEN FALSE
    ELSE IF a = <<>> THEN TRUE
    ELSE IF Head(a) = Head(b) THEN LexLess(Tail(a), Tail(b))
    ELSE Ascii(Head(a)) < Ascii(Head(b))

RECURSIVE Insert(_, _)
Insert(x, sorted) ==
    IF sorted = <<>> THEN <<x>>
    ELSE IF LexLess(x, Head(sorted)) THEN <<x>> \o sorted
    ELSE <<Head(sorted)>> \o Insert(x, Tail(sorted))

\* a sort that leaves its input as it is
SortNot(q) == q

\* Vec<String>::sort
RECURSIVE Sort(_)
Sort(q) == IF q = <<>> THEN <<>> ELSE Insert(q[Len(q)], Sort(SubSeq(q, 1, Len(q) - 1)))

\* the orders in which a hash map or hash set may hand out its elements
Orders(S) ==
    {q \in [1..Cardinality(S) -> S] : \A i, j \in 1..Cardinality(S) : i # j => q[i] # q[j]}

\* the pattern ^([0-9]+)(?:[+]([1-9][0-9]*))?$ of an unfiltered fixture's stem
unfiltered_rx(s) ==
    IF Find(s, "+") = 0
    THEN s # <<>> /\ \A i \in 1..Len(s) : IsDigit(s[i])
    ELSE /\ Before(s, Find(s, "+")) # <<>>
         /\ \A i \in 1..Len(s) : i # Find(s, "+") => IsDigit(s[i])
         /\ After(s, Find(s, "+")) # <<>>
         /\ After(s, Find(s, "+"))[1] # "0"

Lines(ls) == [jsonl |-> ls]
NewFile(n, c) == [name |-> n, content |-> c]

\* format!("{}f{}.json", stem, filter_no) and format!("{}w{}.jsonl", stem, filter_no)
FilterName(st, filter_no) == st \o <<"f">> \o to_string(filter_no) \o <<".", "j", "s", "o", "n">>
OutputName(st, filter_no) ==
    st \o <<"w">> \o to_string(filter_no) \o <<".", "j", "s", "o", "n", "l">>

\* the lines written for a sequence of events, in their order
LinesOf(events) == [i \in 1..Len(events) |-> ToLine(events[i])]


\* Vec::push behind the ? of the lines that follow
AppendRest(event, rest) == IF ~rest.ok THEN rest ELSE OkSeq(<<event>> \o rest.seq)

(* filter_address.rs *)

\* lines 49-59: the events of the fixture, each with a string from_address
RECURSIVE ReadAddressEvents(_)
ReadAddressEvents(lines) ==
    IF lines = <<>> THEN OkSeq(<<>>)
    ELSE IF ~parse_event(Head(lines)).ok THEN ErrSeq("not JSON")
    ELSE IF ~IsString(Field(parse_event(Head(lines)).event, "from_address"))
         THEN ErrSeq("unexpected address type")
    ELSE AppendRest(parse_event(Head(lines)).event, ReadAddressEvents(Tail(lines)))

\* lines 55-56: the count of every address
CountAddresses(events) ==
    [a \in {events[i].from_address.s : i \in 1..Len(events)} |->
        Cardinality({i \in 1..Len(events) : events[i].from_address.s = a})]

\* lines 61-65: the addresses seen at least `repeat` times
Repeated(counts, repeat) == {a \in DOMAIN counts : counts[a] >= repeat}

\* lines 72-90: the descriptor and the derived fixture of every address
RECURSIVE WriteAddressFilters(_, _, _, _)
WriteAddressFilters(st, addrs, events, idx) ==
    IF idx >= Len(addrs) THEN <<>>
    ELSE << NewFile(FilterName(st, idx + 1),
                    JsonObject([address |-> JString(addrs[idx + 1])])),
            NewFile(OutputName(st, idx + 1),
                    Lines(LinesOf(SelectSeq(events,
                        LAMBDA e : Field(e, "from_address") = JString(addrs[idx + 1]))))) >>
         \o WriteAddressFilters(st, addrs, events, idx + 1)

(* filter_keys.rs *)

\* lines 58-65: the keys of an event as strings
AllStrings(keys) == \A i \in 1..Len(keys) : IsString(keys[i])
StrKeys(keys) == [i \in 1..Len(keys) |-> keys[i].s]
AsValues(strs) == [i \in 1..Len(strs) |-> JString(strs[i])]

\* lines 55-71 without the sort
CanonKeysUnsorted(keys, unordered) ==
    IF ~unordered THEN keys ELSE AsValues(StrKeys(keys))

\* lines 55-71: the key sequence as it is, or sorted when order does not matter
CanonKeys(keys, unordered) ==
    IF ~unordered THEN keys ELSE AsValues(Sort(StrKeys(keys)))

\* lines 48-75 keeping the events without keys too
RECURSIVE ReadKeyEventsAll(_, _)
ReadKeyEventsAll(lines, unordered) ==
    IF lines = <<>> THEN OkSeq(<<>>)
    ELSE IF ~parse_event(Head(lines)).ok THEN ErrSeq("not JSON")
    ELSE IF ~IsArray(Field(parse_event(Head(lines)).event, "keys"))
         THEN ErrSeq("unexpected keys type")
    ELSE IF /\ unordered
            /\ ~AllStrings(Field(parse_event(Head(lines)).event, "keys").a)
         THEN ErrSeq("unexpected key type")
    ELSE AppendRest(parse_event(Head(lines)).event,
                    ReadKeyEventsAll(Tail(lines), unordered))

\* lines 48-75: the events of the fixture that have keys
RECURSIVE ReadKeyEvents(_, _)
ReadKeyEvents(lines, unordered) ==
    IF lines = <<>> THEN OkSeq(<<>>)
    ELSE IF ~parse_event(Head(lines)).ok THEN ErrSeq("not JSON")
    ELSE IF ~IsArray(Field(parse_event(Head(lines)).event, "keys"))
         THEN ErrSeq("unexpected keys type")
    ELSE IF Field(parse_event(Head(lines)).event, "keys").a = <<>>
         THEN ReadKeyEvents(Tail(lines), unordered)
    ELSE IF /\ unordered
            /\ ~AllStrings(Field(parse_event(Head(lines)).event, "keys").a)
         THEN ErrSeq("unexpected key type")
    ELSE AppendRest(parse_event(Head(lines)).event,
                    ReadKeyEvents(Tail(lines), unordered))

\* line 72: the set of canonical key sequences of the events kept
KnownKeys(events, unordered) ==
    {CanonKeys(events[i].keys.a, unordered) : i \in 1..Len(events)}

\* lines 81-85: the keys field of the descriptor
FilterKeys(keys, unordered) ==
    IF ~unordered
    THEN [i \in 1..Len(keys) |-> JArray(<<keys[i]>>)]
    ELSE [i \in 1..Len(keys) |-> JArray(keys)]

\* slice::starts_with
StartsWith(q, prefix) ==
    Len(prefix) <= Len(q) /\ \A i \in 1..Len(prefix) : q[i] = prefix[i]

\* lines 99-105: a prefix match, or every key among the event's keys
Accept(event_keys, keys, unordered) ==
    IF ~unordered
    THEN StartsWith(event_keys, keys)
    ELSE \A i \in 1..Len(keys) : keys[i] \in {event_keys[j] : j \in 1..Len(event_keys)}

\* lines 77-110: the descriptor and the derived fixture of every key sequence
RECURSIVE WriteKeyFilters(_, _, _, _, _)
WriteKeyFilters(st, known, events, unordered, idx) ==
    IF idx >= Len(known) THEN <<>>
    ELSE << NewFile(FilterName(st, idx + 1),
                    JsonObject([keys |-> JArray(FilterKeys(known[idx + 1], unordered))])),
            NewFile(OutputName(st, idx + 1),
                    Lines(LinesOf(SelectSeq(events,
                        LAMBDA e : Accept(Field(e, "keys").a, known[idx + 1], unordered))))) >>
         \o WriteKeyFilters(st, known, events, unordered, idx + 1)

-----------------------------------------------------------------------------
(* Values that stand for "not used by this program" *)

Idle == <<>>

-----------------------------------------------------------------------------
(* The stem codec as a program: a stem is given, or a seed is encoded into  *)
(* one, and FilterSeed::load decodes it.                                    *)

StemAlphabet == {"0", "1", "5", "+", "w", "-"}

ExampleStems ==
    { <<"1", "0", "0">>,
      <<"1", "0", "0", "+", "5">>,
      <<"1", "0", "0", "w", "3">>,
      <<"1", "0", "0", "+", "5", "w", "3">>,
      <<"1", "0", "0", "+", "0", "5">>,
      <<"1", "0", "0", "+", "+", "5">>,
      <<"1", "0", "0", "+", "0">>,
      <<"0", "1", "0", "0", "+", "5">>,
      <<"1", "0", "0", "+", "2", "8">>,
      <<"1", "0", "0", "+", "2", "7", "w", "3">>,
      <<"9", "9", "9", "9">>,
      <<"1", "0", "0", "w", "a", "+", "b">> }

Stems == Texts(StemAlphabet, MaxStemLen) \cup ExampleStems

NameAlphabet == {"3", "w", "+", "f"}

BlockVals == {0, 1, 9, 10, 99, 100, 105, U64Max - 1, U64Max}

Seeds ==
    { OkSeed(f, t, w) :
        f \in BlockVals,
        t \in BlockVals,
        w \in {None} \cup {Some(n) : n \in Texts(NameAlphabet, MaxNameLen)} }

ValidSeeds == {x \in Seeds : x.to_block >= x.from_block}

othersStem == <<sidecar, filter, fixture, token, destination, requests, pages,
                index, cli, written, result>>

InitStem ==
    /\ pc = "init"
    /\ stem = <<>>
    /\ origin = NoSeed
    /\ seed = NoSeed
    /\ sidecar = Idle
    /\ filter = Idle
    /\ fixture = Idle
    /\ token = Idle
    /\ destination = Idle
    /\ requests = Idle
    /\ pages = Idle
    /\ index = 0
    /\ cli = Idle
    /\ written = Idle
    /\ result = "none"

\* a fixture file with this stem is found in the fixture directory
GivenStem ==
    /\ pc = "init"
    /\ \E s \in Stems : stem' = s
    /\ pc' = "decode"
    /\ UNCHANGED <<origin, seed, othersStem>>

\* a fixture is named after a block range and an optional filter name
EncodeSeed ==
    /\ pc = "init"
    /\ \E x \in ValidSeeds :
         /\ origin' = x
         /\ stem' = Encode(x)
    /\ pc' = "decode"
    /\ UNCHANGED <<seed, othersStem>>

\* FilterSeed::load
Load ==
    /\ pc = "decode"
    /\ seed' = from_stem(stem)
    /\ pc' = "loaded"
    /\ UNCHANGED <<stem, origin, othersStem>>

NextStem == GivenStem \/ EncodeSeed \/ Load

SpecStem == InitStem /\ [][NextStem]_vars

-----------------------------------------------------------------------------
(* Reference reading of the stem grammar                                    *)
(*   stem := from_block ["+" block_count] ["w" filter_name]                 *)
(* used to state the claims about decoding.                                 *)

IsDecimal(s) == s # <<>> /\ \A i \in 1..Len(s) : IsDigit(s[i])

\* value of a digit string as a mathematical integer (no width)
RECURSIVE PlainValue(_)
PlainValue(s) ==
    IF s = <<>> THEN 0
    ELSE PlainValue(SubSeq(s, 1, Len(s) - 1)) * 10 + DigitVal(s[Len(s)])

\* the part of the stem in front of the filter name
NumberPart(s) == IF Find(s, "w") = 0 THEN s ELSE Before(s, Find(s, "w"))

HasName(s) == Find(s, "w") # 0
NamePart(s) == After(s, Find(s, "w"))

HasCount(s) == Find(NumberPart(s), "+") # 0
FromPart(s) ==
    IF HasCount(s) THEN Before(NumberPart(s), Find(NumberPart(s), "+"))
    ELSE NumberPart(s)
CountPart(s) == After(NumberPart(s), Find(NumberPart(s), "+"))

\* an integer as str::parse reads it: digits, with an optional leading '+'
Unsigned(s) == IF s # <<>> /\ Head(s) = "+" THEN Tail(s) ELSE s

\* a canonical block count: a bare digit string, no leading zero, at least 1
CanonicalCount(s) == IsDecimal(s) /\ Head(s) # "0"

Txt100 == <<"1", "0", "0">>
Txt100p5 == <<"1", "0", "0", "+", "5">>
Txt100w3 == <<"1", "0", "0", "w", "3">>
Txt100p5w3 == <<"1", "0", "0", "+", "5", "w", "3">>

C5_RoundTrip ==
    (pc = "loaded" /\ origin # NoSeed) => seed = origin

\* a triple with from_block = to_block and a name holding '+' and 'w' made
\* the round trip
C5_Witness ==
    /\ pc = "loaded"
    /\ origin = OkSeed(100, 100, Some(<<"+", "w">>))
    /\ seed = origin

\* C6: a stem whose '+' part is not a canonical block count (0, a leading
\* zero, a sign) is rejected.
C6_RejectsNonCanonicalCount ==
    (pc = "loaded" /\ HasCount(stem) /\ ~CanonicalCount(CountPart(stem)))
      => ~seed.ok

-----------------------------------------------------------------------------
(* Resolving the filter of a fixture: FilterSeed::load on its path, then    *)
(* get_filter_address_and_keys against the fixture directory.               *)

Hex1 == <<"0", "x", "1">>
Hex2 == <<"0", "x", "2">>
Hex10 == <<"0", "x", "1", "0">>
HexBad == <<"0", "x", "g">>

Name100f3 == <<"1", "0", "0", "f", "3", ".", "j", "s", "o", "n">>
Name100p5f3 == <<"1", "0", "0", "+", "5", "f", "3", ".", "j", "s", "o", "n">>

\* all sequences over S of length at most n
SeqsUpTo(S, n) == UNION {[1..k -> S] : k \in 0..n}

AddressValues == {JString(Hex1), JString(HexBad), JNumber(7)}

KeyElements == {JString(Hex1), JString(Hex2), JNumber(7)}

KeyPositions ==
    {JArray(alt) : alt \in SeqsUpTo(KeyElements, MaxAlternatives)} \cup {JString(Hex1)}

KeysValues ==
    {JArray(outer) : outer \in SeqsUpTo(KeyPositions, MaxKeyPositions)}
      \cup {JString(Hex1)}

Descriptors ==
    {<<>>}
      \cup {[address |-> a] : a \in AddressValues}
      \cup {[keys |-> k] : k \in KeysValues}
      \cup {[address |-> a, keys |-> k] : a \in AddressValues, k \in KeysValues}

Contents == {NotJson} \cup {JsonObject(m) : m \in Descriptors}

Directories ==
    {{}} \cup {{[name |-> n, content |-> c]} : n \in {Name100f3, Name100p5f3}, c \in Contents}

FilterStems == {Txt100, Txt100p5, Txt100w3, Txt100p5w3}

InitFilter ==
    /\ pc = "decode"
    /\ stem \in FilterStems
    /\ origin = NoSeed
    /\ seed = NoSeed
    /\ sidecar \in Directories
    /\ filter = Idle
    /\ fixture = Idle
    /\ token = Idle
    /\ destination = Idle
    /\ requests = Idle
    /\ pages = Idle
    /\ index = 0
    /\ cli = Idle
    /\ written = Idle
    /\ result = "none"

\* FilterSeed::get_filter_address_and_keys on a loaded seed
Resolve ==
    /\ pc = "loaded"
    /\ seed.ok
    /\ filter' = get_filter_address_and_keys(seed, sidecar)
    /\ pc' = "resolved"
    /\ UNCHANGED <<stem, origin, seed, sidecar, fixture, token, destination,
                   requests, pages, index, cli, written, result>>

NextFilter == Load \/ Resolve

SpecFilter == InitFilter /\ [][NextFilter]_vars

\* the JSON object that get_filter_address_and_keys read for the seed
DescriptorRead ==
    ReadToString(sidecar, format_filter_basename(seed)[1])

\* C7: without a filter name the result is (None, None); with one, a
\* successful result reflects the descriptor exactly: the address field, if
\* the descriptor has one, is a string and is returned as its typed value, and
\* the keys field, if the descriptor has one, is an array of arrays of strings
\* returned position by position in the same order.  No field of the wrong
\* shape is dropped from a successful result.
C7_FilterReflectsDescriptor ==
    pc = "resolved" =>
      /\ seed.with_name = None => filter = OkFilter(None, None)
      /\ (seed.with_name # None /\ filter.ok) =>
           /\ DescriptorRead # None
           /\ DescriptorRead[1].json
           /\ LET map == DescriptorRead[1].map
              IN /\ "address" \notin DOMAIN map => filter.address = None
                 /\ "address" \in DOMAIN map =>
                      /\ IsString(map.address)
                      /\ filter.address = Some(HexValue(StripPrefix0x(map.address.s)))
                 /\ "keys" \notin DOMAIN map => filter.keys = None
                 /\ "keys" \in DOMAIN map =>
                      /\ IsArray(map.keys)
                      /\ filter.keys # None
                      /\ Len(filter.keys[1]) = Len(map.keys.a)
                      /\ \A i \in 1..Len(map.keys.a) :
                           /\ IsArray(map.keys.a[i])
                           /\ Len(filter.keys[1][i]) = Len(map.keys.a[i].a)
                           /\ \A j \in 1..Len(map.keys.a[i].a) :
                                /\ IsString(map.keys.a[i].a[j])
                                /\ filter.keys[1][i][j]
                                     = HexValue(StripPrefix0x(map.keys.a[i].a[j].s))

-----------------------------------------------------------------------------
(* check_fixture as a program *)

HashA == <<"0", "x", "a">>
HashB == <<"0", "x", "b">>
TokenA == <<"t", "1">>
TokenB == <<"t", "2">>

WireEvent(addr, hash) ==
    [from_address |-> JString(addr),
     keys |-> JArray(<<JString(Hex2)>>),
     block_hash |-> JString(hash)]

WireEvents == {WireEvent(Hex1, HashA), WireEvent(Hex2, HashB)}

\* the pages the transport may answer the n-th request with; the last
\* request the bound allows is answered without a token
PagesAt(n) ==
    {[events |-> ev, continuation_token |-> t] :
        ev \in SeqsUpTo(WireEvents, MaxPageLen),
        t \in {None} \cup (IF n < MaxPages THEN {Some(TokenA), Some(TokenB)} ELSE {})}

\* lines of a fixture file: an event in sorted field order, the same event
\* with its fields in another order, another event, and a line that is not JSON
Line1 == ObjectLine(<< <<"from_address", JString(Hex1)>>,
                       <<"keys", JArray(<<JString(Hex2)>>)>> >>)
Line1Reordered == ObjectLine(<< <<"keys", JArray(<<JString(Hex2)>>)>>,
                                <<"from_address", JString(Hex1)>> >>)
Line2 == ObjectLine(<< <<"from_address", JString(Hex2)>>,
                       <<"keys", JArray(<<JString(Hex2)>>)>> >>)

FixtureLines == {Line1, Line1Reordered, Line2, GarbageLine}

File(n, c) == [name |-> n, content |-> c]

\* a stem and the fixture directory it is checked in
CheckCases ==
    { <<Txt100, {}>>,
      <<Txt100p5w3, {File(Name100p5f3, JsonObject([address |-> JString(Hex1)]))}>>,
      <<Txt100p5w3, {File(Name100p5f3, JsonObject(
            [address |-> JString(Hex1),
             keys |-> JArray(<<JArray(<<JString(Hex2)>>)>>)]))}>>,
      <<Txt100p5w3, {File(Name100p5f3, JsonObject(
            [keys |-> JArray(<<JArray(<<JString(Hex2)>>)>>)]))}>>,
      <<Txt100p5w3, {File(Name100p5f3, JsonObject([address |-> JNumber(7)]))}>>,
      <<Txt100p5w3, {File(Name100p5f3, JsonObject([address |-> JString(HexBad)]))}>>,
      <<Txt100p5w3, {File(Name100p5f3, NotJson)}>>,
      <<Txt100p5w3, {}>>,
      <<<<"w", "3">>, {}>> }

InitCheck ==
    /\ pc = "start"
    /\ origin = NoSeed
    /\ seed = NoSeed
    /\ filter = Idle
    /\ token = None
    /\ destination = <<>>
    /\ requests = <<>>
    /\ pages = <<>>
    /\ index = 0
    /\ cli = Idle
    /\ written = Idle
    /\ result = "none"

\* every kind of fixture directory, a short fixture
InitPaged ==
    /\ InitCheck
    /\ \E c \in CheckCases : stem = c[1] /\ sidecar = c[2]
    /\ fixture \in {<<>>, <<Line1>>}

\* an unfiltered fixture of every content
InitVerify ==
    /\ InitCheck
    /\ stem = Txt100
    /\ sidecar = {}
    /\ fixture \in SeqsUpTo(FixtureLines, MaxFixtureLen)

\* lines 105-148
BuildFilter ==
    /\ pc = "start"
    /\ seed' = from_stem(stem)
    /\ \E b \in {BuildEventFilter(stem, sidecar)} :
          IF b.outcome = "ok"
          THEN /\ filter' = b.filter
               /\ pc' = "request"
               /\ result' = result
          ELSE /\ filter' = filter
               /\ pc' = "done"
               /\ result' = IF b.outcome = "panic" THEN "panic" ELSE "filter_error"
    /\ token' = None
    /\ UNCHANGED <<stem, origin, sidecar, fixture, destination, requests, pages,
                   index, cli, written>>

Request == [filter |-> filter, continuation_token |-> token, chunk_size |-> ChunkSize]

\* lines 150-166: one turn of the loop, the transport answering with a page
GetEvents ==
    /\ pc = "request"
    /\ \E page \in PagesAt(Len(pages) + 1) :
         /\ requests' = Append(requests, Request)
         /\ pages' = Append(pages, page)
         /\ destination' = WriteEvents(destination, page.events)
         /\ token' = page.continuation_token
         /\ pc' = AfterPage(page.continuation_token)
    /\ UNCHANGED <<stem, origin, seed, sidecar, filter, fixture, index, cli,
                   written, result>>

\* line 150: the request fails and check_fixture returns the error
GetEventsFails ==
    /\ pc = "request"
    /\ requests' = Append(requests, Request)
    /\ result' = "transport_error"
    /\ pc' = "done"
    /\ UNCHANGED <<stem, origin, seed, sidecar, filter, fixture, token,
                   destination, pages, index, cli, written>>

\* lines 175-181: zip has run out of one of the two files
CompareEnd ==
    /\ pc = "compare"
    /\ (index + 1 > Len(destination) \/ index + 1 > Len(fixture))
    /\ result' = "ok"
    /\ pc' = "done"
    /\ UNCHANGED <<stem, origin, seed, sidecar, filter, fixture, token,
                   destination, requests, pages, index, cli, written>>

\* lines 175-179: one pair of lines
CompareLines ==
    /\ pc = "compare"
    /\ index + 1 <= Len(destination)
    /\ index + 1 <= Len(fixture)
    /\ LET actual_event == parse_event(destination[index + 1])
           expected_event == parse_event(fixture[index + 1])
       IN IF ~actual_event.ok \/ ~expected_event.ok
          THEN /\ result' = "fixture_error"
               /\ pc' = "done"
               /\ index' = index
          ELSE IF actual_event.event = expected_event.event
          THEN /\ result' = result
               /\ pc' = "compare"
               /\ index' = index + 1
          ELSE /\ result' = "mismatch"
               /\ pc' = "done"
               /\ index' = index
    /\ UNCHANGED <<stem, origin, seed, sidecar, filter, fixture, token,
                   destination, requests, pages, cli, written>>

NextCheck == BuildFilter \/ GetEvents \/ GetEventsFails \/ CompareEnd \/ CompareLines

SpecPaged == InitPaged /\ [][NextCheck]_vars

SpecVerify == InitVerify /\ [][NextCheck]_vars

-----------------------------------------------------------------------------
(* Claims about check_fixture *)

SameEvent(actual_line, expected_line) ==
    /\ parse_event(actual_line).ok
    /\ parse_event(expected_line).ok
    /\ parse_event(actual_line).event = parse_event(expected_line).event

\* C1: the comparison succeeds only if the retrieved lines and the fixture's
\* lines are equally many and equal as canonical events at every index, and
\* a mismatch is reported at the first index whose two events differ.
C1_VerifierExact ==
    /\ (pc = "done" /\ result = "ok") =>
         /\ Len(destination) = Len(fixture)
         /\ \A i \in 1..Len(destination) : SameEvent(destination[i], fixture[i])
    /\ (pc = "done" /\ result = "mismatch") =>
         /\ \A i \in 1..index : SameEvent(destination[i], fixture[i])
         /\ ~SameEvent(destination[index + 1], fixture[index + 1])

\* the events of all pages, in page order
RECURSIVE AllEvents(_)
AllEvents(ps) ==
    IF ps = <<>> THEN <<>> ELSE Head(ps).events \o AllEvents(Tail(ps))

RetrievalDone ==
    pc = "compare" \/ (pc = "done" /\ result \in {"ok", "mismatch", "fixture_error"})

\* C2: no request follows a page without a token; when retrieval ends, the
\* last page is the first without a token, one request was issued per page,
\* and the lines handed to the comparison are the events of the pages in
\* page order and in their order within each page, each without block_hash.
C2_PagedConcatenation ==
    /\ \A i \in 1..(Len(pages) - 1) : pages[i].continuation_token # None
    /\ (pages # <<>> /\ pages[Len(pages)].continuation_token = None) => pc # "request"
    /\ RetrievalDone =>
         /\ pages # <<>>
         /\ pages[Len(pages)].continuation_token = None
         /\ Len(requests) = Len(pages)
         /\ Len(destination) = Len(AllEvents(pages))
         /\ \A i \in 1..Len(destination) :
              /\ parse_event(destination[i]).ok
              /\ parse_event(destination[i]).event
                   = [from_address |-> AllEvents(pages)[i].from_address,
                      keys |-> AllEvents(pages)[i].keys]

\* two pages, the first with a token, have been retrieved and handed over
C2_Witness ==
    /\ pc = "compare"
    /\ Len(pages) = 2
    /\ Len(pages[1].events) = 2
    /\ Len(pages[2].events) = 1
    /\ Len(destination) = 3

\* the filter a well-formed descriptor declares
WellFormed(map) ==
    /\ "address" \in DOMAIN map =>
         /\ IsString(map.address)
         /\ from_hex(map.address.s).ok
    /\ "keys" \in DOMAIN map =>
         /\ IsArray(map.keys)
         /\ \A i \in 1..Len(map.keys.a) :
              /\ IsArray(map.keys.a[i])
              /\ \A j \in 1..Len(map.keys.a[i].a) :
                   /\ IsString(map.keys.a[i].a[j])
                   /\ from_hex(map.keys.a[i].a[j].s).ok

DeclaredAddress(map) ==
    IF "address" \in DOMAIN map THEN Some(from_hex(map.address.s).felt) ELSE None

DeclaredKeys(map) ==
    IF "keys" \in DOMAIN map
    THEN Some([i \in 1..Len(map.keys.a) |->
                 [j \in 1..Len(map.keys.a[i].a) |-> from_hex(map.keys.a[i].a[j].s).felt]])
    ELSE None

\* C3: every request carries the fixture's declared filter (the block range
\* of the stem, the address and the key pattern of the descriptor, both
\* absent without a filter name) and page size 1024; the first request has no
\* token, each later one the token of the page before it, and a request is
\* issued only when every earlier one has been answered.
C3_RequestsCarryDeclaredFilter ==
    \A i \in 1..Len(requests) :
      /\ seed.ok
      /\ requests[i].filter.from_block = seed.from_block
      /\ requests[i].filter.to_block = seed.to_block
      /\ seed.with_name = None =>
           /\ requests[i].filter.address = None
           /\ requests[i].filter.keys = None
      /\ (seed.with_name # None /\ DescriptorRead # None /\ DescriptorRead[1].json
            /\ WellFormed(DescriptorRead[1].map)) =>
           /\ requests[i].filter.address = DeclaredAddress(DescriptorRead[1].map)
           /\ requests[i].filter.keys = DeclaredKeys(DescriptorRead[1].map)
      /\ requests[i].chunk_size = ChunkSize
      /\ i - 1 <= Len(pages)
      /\ requests[i].continuation_token
           = IF i = 1 THEN None ELSE pages[i - 1].continuation_token

-----------------------------------------------------------------------------
(* The curators as programs: one source fixture, one run of cond_refract *)

AddressLine(addr) ==
    ObjectLine(<< <<"from_address", addr>>, <<"keys", JArray(<<JString(Hex2)>>)>> >>)

AddressLines ==
    {AddressLine(JString(Hex1)), AddressLine(JString(Hex10)), AddressLine(JString(Hex2)),
     AddressLine(JNumber(7)), GarbageLine}

KeyLine(keys) ==
    ObjectLine(<< <<"keys", keys>>, <<"from_address", JString(Hex1)>> >>)

KeyLines ==
    {KeyLine(JArray(ks)) : ks \in SeqsUpTo({JString(Hex1), JString(Hex2)}, MaxKeys)}
      \cup {KeyLine(JArray(<<JNumber(7)>>)), KeyLine(JString(Hex1))}

InitCurator ==
    /\ pc = "start"
    /\ origin = NoSeed
    /\ seed = NoSeed
    /\ sidecar = Idle
    /\ filter = Idle
    /\ token = Idle
    /\ destination = Idle
    /\ requests = Idle
    /\ pages = Idle
    /\ index = 0
    /\ written = <<>>
    /\ result = "none"

InitAddress ==
    /\ InitCurator
    /\ cli \in [repeat : 0..MaxRepeat]
    /\ \/ /\ stem = Txt100p5
          /\ fixture \in SeqsUpTo(AddressLines, MaxAddressEvents)
       \/ /\ stem \in {Txt100w3, <<"1", "0", "0", "+", "0", "5">>}
          /\ fixture = <<AddressLine(JString(Hex1)), AddressLine(JString(Hex1))>>

InitKeys ==
    /\ InitCurator
    /\ cli \in [unordered : BOOLEAN]
    /\ \/ /\ stem = Txt100p5
          /\ fixture \in SeqsUpTo(KeyLines, MaxKeyEvents)
       \/ /\ stem \in {Txt100w3, <<"1", "0", "0", "+", "0", "5">>}
          /\ fixture = <<KeyLine(JArray(<<JString(Hex1)>>))>>

\* filter_address.rs, cond_refract
cond_refract_address ==
    /\ pc = "start"
    /\ IF ~unfiltered_rx(stem)
       THEN /\ written' = written
            /\ result' = "ok"
       ELSE \E r \in {ReadAddressEvents(fixture)} :
              IF ~r.ok
              THEN /\ written' = written
                   /\ result' = "error"
              ELSE \E order \in Orders(Repeated(CountAddresses(r.seq), cli.repeat)) :
                     /\ written' = WriteAddressFilters(stem, Sort(order), r.seq, 0)
                     /\ result' = "ok"
    /\ pc' = "done"
    /\ UNCHANGED <<stem, origin, seed, sidecar, filter, fixture, token, destination,
                   requests, pages, index, cli>>

\* filter_keys.rs, cond_refract
cond_refract_keys ==
    /\ pc = "start"
    /\ IF ~unfiltered_rx(stem)
       THEN /\ written' = written
            /\ result' = "ok"
       ELSE \E r \in {ReadKeyEvents(fixture, cli.unordered)} :
              IF ~r.ok
              THEN /\ written' = written
                   /\ result' = "error"
              ELSE \E order \in Orders(KnownKeys(r.seq, cli.unordered)) :
                     /\ written' = WriteKeyFilters(stem, order, r.seq, cli.unordered, 0)
                     /\ result' = "ok"
    /\ pc' = "done"
    /\ UNCHANGED <<stem, origin, seed, sidecar, filter, fixture, token, destination,
                   requests, pages, index, cli>>

NextAddress == cond_refract_address

NextKeys == cond_refract_keys

SpecAddress == InitAddress /\ [][NextAddress]_vars

SpecKeys == InitKeys /\ [][NextKeys]_vars

-----------------------------------------------------------------------------
(* Claims about the curators *)

\* a curation run over an unfiltered source fixture has ended well
Curated == pc = "done" /\ result = "ok" /\ unfiltered_rx(stem)

\* the events of the source fixture, and of a derived fixture
SourceEvents == [i \in 1..Len(fixture) |-> parse_event(fixture[i]).event]
DerivedEvents(n) ==
    [i \in 1..Len(written[2 * n].content.jsonl) |->
        parse_event(written[2 * n].content.jsonl[i]).event]

FilterCount == Len(written) \div 2

NamesAreNumbered ==
    /\ Len(written) % 2 = 0
    /\ \A n \in 1..FilterCount :
         /\ written[2 * n - 1].name = stem \o <<"f">> \o to_string(n) \o <<".", "j", "s", "o", "n">>
         /\ written[2 * n].name = stem \o <<"w">> \o to_string(n) \o <<".", "j", "s", "o", "n", "l">>

AddressOf(e) == e.from_address.s

Occurrences(a) == Cardinality({i \in 1..Len(fixture) : AddressOf(SourceEvents[i]) = a})

Qualifying ==
    {a \in {AddressOf(SourceEvents[i]) : i \in 1..Len(fixture)} : Occurrences(a) >= cli.repeat}

FromAddress(a, e) == AddressOf(e) = a

\* C8: address curation with threshold r writes one filter per distinct
\* address that occurs at least r times and no other; filter n is the address
\* with n-1 qualifying addresses before it in lexicographic order, whatever
\* the order of the source events; derived fixture n is the source events
\* from that address, in their original order.
C8_AddressCuration ==
    Curated =>
      /\ NamesAreNumbered
      /\ FilterCount = Cardinality(Qualifying)
      /\ \A n \in 1..FilterCount :
           \E a \in Qualifying :
             /\ written[2 * n - 1].content = JsonObject([address |-> JString(a)])
             /\ Cardinality({b \in Qualifying : LexLess(b, a)}) = n - 1
             /\ DerivedEvents(n) = SelectSeq(SourceEvents, LAMBDA e : FromAddress(a, e))

\* events from 0x2, 0x2, 0x10, 0x10, 0x1 with threshold 2 gave the filters
\* 0x10 and 0x2, in this order
C8_Witness ==
    /\ Curated
    /\ cli.repeat = 2
    /\ fixture = <<AddressLine(JString(Hex2)), AddressLine(JString(Hex2)),
                   AddressLine(JString(Hex10)), AddressLine(JString(Hex10)),
                   AddressLine(JString(Hex1))>>
    /\ Len(written) = 4
    /\ written[1].content = JsonObject([address |-> JString(Hex10)])
    /\ written[3].content = JsonObject([address |-> JString(Hex2)])
    /\ Len(written[2].content.jsonl) = 2

KeysOf(e) == e.keys.a

IsPrefix(p, q) == Len(p) <= Len(q) /\ SubSeq(q, 1, Len(p)) = p

DistinctKeySequences ==
    {KeysOf(SourceEvents[i]) : i \in 1..Len(fixture)} \ {<<>>}

EachWrapped(ks) == [i \in 1..Len(ks) |-> JArray(<<ks[i]>>)]

\* C9: ordered-key curation writes one filter per distinct non-empty key
\* sequence of the source fixture, with descriptor keys [[k0],[k1],...]; its
\* derived fixture is the source events whose key sequence starts with
\* k0,k1,..., in their original order; an event without keys gives no filter
\* and is in no derived fixture.
C9_OrderedKeyCuration ==
    (Curated /\ ~cli.unordered) =>
      /\ NamesAreNumbered
      /\ FilterCount = Cardinality(DistinctKeySequences)
      /\ \A ks \in DistinctKeySequences :
           \E n \in 1..FilterCount :
             written[2 * n - 1].content = JsonObject([keys |-> JArray(EachWrapped(ks))])
      /\ \A n \in 1..FilterCount :
           \E ks \in DistinctKeySequences :
             /\ written[2 * n - 1].content = JsonObject([keys |-> JArray(EachWrapped(ks))])
             /\ DerivedEvents(n)
                  = SelectSeq(SourceEvents, LAMBDA e : IsPrefix(ks, KeysOf(e)))
             /\ \A i \in 1..Len(DerivedEvents(n)) : KeysOf(DerivedEvents(n)[i]) # <<>>

\* the source events had the keys [0x1,0x2], [] and [0x1]; two filters were
\* written, and the filter [[0x1]] selected the two events that start with 0x1
C9_Witness ==
    /\ Curated
    /\ ~cli.unordered
    /\ fixture = <<KeyLine(JArray(<<JString(Hex1), JString(Hex2)>>)),
                   KeyLine(JArray(<<>>)),
                   KeyLine(JArray(<<JString(Hex1)>>))>>
    /\ Len(written) = 4
    /\ \E n \in 1..2 :
         /\ written[2 * n - 1].content
              = JsonObject([keys |-> JArray(<<JArray(<<JString(Hex1)>>)>>)])
         /\ Len(written[2 * n].content.jsonl) = 2

\* the keys of a sequence with their multiplicities
KeyBag(ks) ==
    [k \in {ks[i] : i \in 1..Len(ks)} |-> Cardinality({i \in 1..Len(ks) : ks[i] = k})]

KeySet(ks) == {ks[i] : i \in 1..Len(ks)}

DistinctKeyBags ==
    {KeyBag(KeysOf(SourceEvents[i])) : i \in {j \in 1..Len(fixture) : KeysOf(SourceEvents[j]) # <<>>}}

\* the canonical key sequence of filter n: the first position of its descriptor
CanonicalKeys(n) == written[2 * n - 1].content.map.keys.a[1].a

\* C10: unordered-key curation sorts each non-empty key sequence before
\* deduplication, so key sequences that differ only in order give one filter
\* (one filter per distinct multiset of keys, its canonical sequence sorted);
\* the derived fixture of a filter with canonical keys S is the source events
\* whose keys, as a set, include every key of S, in their original order.
C10_UnorderedKeyCuration ==
    (Curated /\ cli.unordered) =>
      /\ NamesAreNumbered
      /\ FilterCount = Cardinality(DistinctKeyBags)
      /\ \A n \in 1..FilterCount :
           /\ KeyBag(CanonicalKeys(n)) \in DistinctKeyBags
           /\ \A i \in 1..(Len(CanonicalKeys(n)) - 1) :
                ~LexLess(CanonicalKeys(n)[i + 1].s, CanonicalKeys(n)[i].s)
           /\ DerivedEvents(n)
                = SelectSeq(SourceEvents,
                            LAMBDA e : KeySet(CanonicalKeys(n)) \subseteq KeySet(KeysOf(e)))
      /\ \A n, m \in 1..FilterCount :
           KeyBag(CanonicalKeys(n)) = KeyBag(CanonicalKeys(m)) => n = m

\* the source events had the keys [0x2,0x1], [0x1,0x2] and [0x2]; the first
\* two gave one filter, with canonical keys [0x1,0x2], selecting both
C10_Witness ==
    /\ Curated
    /\ cli.unordered
    /\ fixture = <<KeyLine(JArray(<<JString(Hex2), JString(Hex1)>>)),
                   KeyLine(JArray(<<JString(Hex1), JString(Hex2)>>)),
                   KeyLine(JArray(<<JString(Hex2)>>))>>
    /\ Len(written) = 4
    /\ \E n \in 1..2 :
         /\ CanonicalKeys(n) = <<JString(Hex1), JString(Hex2)>>
         /\ Len(written[2 * n].content.jsonl) = 2

-----------------------------------------------------------------------------
(* The key curator run a second time over the same source fixture, in the   *)
(* same mode: every file is created again under the same name (fs::write,   *)
(* File::create), so `written` then holds what the second run wrote.  The   *)
(* hash set of the second run is a new one, with an iteration order of its  *)
(* own.                                                                     *)

\* filter_keys.rs, cond_refract, called again after a first call
cond_refract_keys_again ==
    /\ pc = "done"
    /\ IF ~unfiltered_rx(stem)
       THEN /\ written' = <<>>
            /\ result' = "ok"
       ELSE \E r \in {ReadKeyEvents(fixture, cli.unordered)} :
              IF ~r.ok
              THEN /\ written' = <<>>
                   /\ result' = "error"
              ELSE \E order \in Orders(KnownKeys(r.seq, cli.unordered)) :
                     /\ written' = WriteKeyFilters(stem, order, r.seq, cli.unordered, 0)
                     /\ result' = "ok"
    /\ pc' = "again"
    /\ UNCHANGED <<stem, origin, seed, sidecar, filter, fixture, token, destination,
                   requests, pages, index, cli>>

NextKeysTwice == cond_refract_keys \/ cond_refract_keys_again

SpecKeysTwice == InitKeys /\ [][NextKeysTwice]_vars

\* C11: two runs of the key curator over the same source fixture, in the
\* same mode, write the same files: every <stem>f<n>.json and every
\* <stem>w<n>.jsonl of the second run has the content the first run gave it
C11_ReproducibleNumbering ==
    [][(pc = "done" /\ pc' = "again") => written' = written]_vars

-----------------------------------------------------------------------------
(* The Filter of the data model, applied to the descriptors the curators    *)
(* write: an address selects the events from that address; keys select the  *)
(* events that have, at every position of the descriptor, one of the keys   *)
(* of the alternative set of that position (what an event has past the end  *)
(* of the descriptor does not matter).                                      *)

Descriptor(n) == written[2 * n - 1].content.map

InAlternatives(alternatives, key) ==
    \E j \in 1..Len(alternatives.a) : alternatives.a[j] = key

SelectsKeys(pattern, event_keys) ==
    /\ Len(event_keys) >= Len(pattern)
    /\ \A i \in 1..Len(pattern) : InAlternatives(pattern[i], event_keys[i])

Selects(descriptor, e) ==
    /\ "address" \in DOMAIN descriptor => Field(e, "from_address") = descriptor.address
    /\ "keys" \in DOMAIN descriptor => SelectsKeys(descriptor.keys.a, KeysOf(e))

\* C12: every derived fixture a curator writes is exactly the subsequence of
\* the source events that the descriptor written beside it selects, in every
\* mode, the unordered-key mode included
C12_FixtureIsWhatDescriptorSelects ==
    Curated =>
      \A n \in 1..FilterCount :
        DerivedEvents(n) = SelectSeq(SourceEvents, LAMBDA e : Selects(Descriptor(n), e))

-----------------------------------------------------------------------------
(* The address curator over source fixtures of any name: what the curator   *)
(* names its files, against what FilterSeed looks for when the derived      *)
(* fixture is loaded.                                                       *)

NamedFixtures ==
    { <<AddressLine(JString(Hex1)), AddressLine(JString(Hex1))>>,
      <<AddressLine(JString(Hex2)), AddressLine(JString(Hex1)),
        AddressLine(JString(Hex2)), AddressLine(JString(Hex1))>> }

InitNames ==
    /\ InitCurator
    /\ cli \in [repeat : 0..MaxRepeat]
    /\ stem \in Stems
    /\ fixture \in NamedFixtures

NextNames == cond_refract_address

SpecNames == InitNames /\ [][NextNames]_vars

\* Path::file_stem of a derived fixture <stem>w<n>.jsonl
DerivedStem(n) ==
    SubSeq(written[2 * n].name, 1, Len(written[2 * n].name) - Len(<<".", "j", "s", "o", "n", "l">>))

\* C13: for every source stem the curator accepts and every filter number n,
\* decoding the stem of the derived fixture <stem>w<n>.jsonl succeeds and the
\* sidecar name it resolves to (format_filter_basename) is the name of the
\* descriptor <stem>f<n>.json that the curator wrote
C13_CuratorAndSeedAgreeOnNames ==
    (pc = "done" /\ result = "ok") =>
      \A n \in 1..FilterCount :
        /\ from_stem(DerivedStem(n)).ok
        /\ format_filter_basename(from_stem(DerivedStem(n))) = Some(written[2 * n - 1].name)

====
